---- MODULE Spec2Model ----
(***************************************************************************)
(* Model of src/app.py: the /webhook handler that turns a trade alert into *)
(* a market order on the futures exchange and notifies a Discord channel.  *)
(*                                                                         *)
(* Numbers.  Prices are integers in quote units.  Quantities and step      *)
(* sizes are integers in thousandths of a base unit (Milli), so that the   *)
(* default stepSize 0.001 is 1.  The raw quantity notional / price is kept *)
(* as an exact fraction; round() is Python 3's round-half-to-even.  Tick   *)
(* sizes are integers in hundredths of a quote unit (default 0.01 is 1).   *)
(*                                                                         *)
(* Runs.  The same alert is handled by two invocations of webhook().  The  *)
(* invocations share no mutable state, so their steps commute and the      *)
(* model runs them one after the other.  While one alert is handled the    *)
(* exchange answers every invocation alike; each invocation has its own    *)
(* notification channel (URL set or not, post succeeding or raising).      *)
(***************************************************************************)
EXTENDS Integers, Sequences, FiniteSets, TLC

\* ---------------------------------------------------------------- bounds
\* Entry prices of the alerts: every integer -1 .. MaxEntry, and ExtraEntries.
MaxEntry == 4
\* round_step is applied to every value vNum / vDen and step below these.
MaxNum == 12
MaxDen == 4
MaxStep == 4

\* ------------------------------------------------------- program constants
Milli == 1000
notional == 10
DefaultStepSize == 1
DefaultTickSize == 1

Runs == {1, 2}

\* ------------------------------------------------------------ JSON values
Missing == [t |-> "missing"]
Num(n) == [t |-> "num", n |-> n]
Str(s) == [t |-> "str", s |-> s]

\* str.upper() on the strings the alerts carry.
Upper(s) ==
    CASE s = "btcusdt" -> "BTCUSDT"
      [] s = "sell" -> "SELL"
      [] s = "buy" -> "BUY"
      [] s = "long" -> "LONG"
      [] OTHER -> s

\* float(x): a number converts, a numeric string converts to its value, any
\* other string raises ValueError, None (a missing key) raises TypeError.
NumericStrings == {"100"}
StrValue(s) == CASE s = "100" -> 100 [] OTHER -> 0
ToFloat(x) ==
    CASE x.t = "num" -> [ok |-> TRUE, v |-> x.n]
      [] x.t = "str" /\ x.s \in NumericStrings -> [ok |-> TRUE, v |-> StrValue(x.s)]
      [] x.t = "str" -> [ok |-> FALSE, exc |-> "ValueError"]
      [] OTHER -> [ok |-> FALSE, exc |-> "TypeError"]

\* ------------------------------------------------------------ the alerts
ExtraEntries == {20, 100, 30000}
EntryValues == (-1 .. MaxEntry) \cup ExtraEntries
EntryFields == {Num(n) : n \in EntryValues} \cup {Str("100"), Str("abc"), Missing}
SymbolFields == {Str("btcusdt"), Str("DOGEUSDT"), Missing, Num(5)}
SideFields == {Str("BUY"), Str("sell"), Str("long"), Missing, Num(1)}

AlertObjects ==
    [symbol : SymbolFields, side : SideFields, entry : EntryFields,
     sl : {Num(95), Missing}, tp1 : {Num(110), Str("abc")}, tp2 : {Num(120)}]

\* The request body: no body at all, bytes that are not JSON, JSON that is
\* falsy in Python ({} [] 0 "" null false), a JSON array, or a JSON object.
Bodies ==
    {[kind |-> "absent"], [kind |-> "malformed"], [kind |-> "empty"], [kind |-> "array"]}
    \cup {[kind |-> "object", obj |-> o] : o \in AlertObjects}

NoAlert == [kind |-> "none"]
\* ------------------------------------------------- exchange_info() results
\* One entry of info['symbols'].  shape "ok": the keys the code reads are
\* there; "nofilters": s['filters'][1]['stepSize'] raises; "nosymbol":
\* s['symbol'] raises KeyError.
SymbolEntry(sym, shape, stepSize, tickSize) ==
    [symbol |-> sym, shape |-> shape, stepSize |-> stepSize, tickSize |-> tickSize]

\* client.exchange_info(): raises, or returns a payload.
ExchangeInfos ==
    { [kind |-> "raises"],
      [kind |-> "nokey"],
      [kind |-> "list", symbols |-> << SymbolEntry("DOGEUSDT", "ok", 1000, 1) >>],
      [kind |-> "list", symbols |-> << SymbolEntry("DOGEUSDT", "ok", 1000, 1),
                                       SymbolEntry("BTCUSDT", "ok", 1, 10) >>],
      [kind |-> "list", symbols |-> << SymbolEntry("BTCUSDT", "nofilters", 0, 0),
                                       SymbolEntry("DOGEUSDT", "ok", 1000, 1) >>],
      [kind |-> "list", symbols |-> << SymbolEntry("", "nosymbol", 0, 0),
                                       SymbolEntry("BTCUSDT", "ok", 1, 10) >>] }

Default == << DefaultStepSize, DefaultTickSize >>

\* The for loop of get_symbol_info from index i on: the pair returned, or
\* "raise" when the body of the try block raises.
RECURSIVE ScanSymbols(_, _, _)
ScanSymbols(symbols, symbol, i) ==
    IF i > Len(symbols) THEN [raised |-> FALSE, pair |-> Default]
    ELSE IF symbols[i].shape = "nosymbol" THEN [raised |-> TRUE, pair |-> Default]
    ELSE IF symbols[i].symbol = symbol
         THEN IF symbols[i].shape = "ok"
              THEN [raised |-> FALSE,
                    pair |-> << symbols[i].stepSize, symbols[i].tickSize >>]
              ELSE [raised |-> TRUE, pair |-> Default]
    ELSE ScanSymbols(symbols, symbol, i + 1)

\* get_symbol_info without its try/except: a failing fetch reaches the caller.
get_symbol_info_unguarded(symbol, info) ==
    IF info.kind # "list"
    THEN [pair |-> Default, logged |-> FALSE, raised |-> TRUE]
    ELSE LET r == ScanSymbols(info.symbols, symbol, 1)
         IN [pair |-> r.pair, logged |-> FALSE, raised |-> r.raised]

\* get_symbol_info(symbol) when client.exchange_info() behaves as info:
\* the pair returned, and whether the except clause (which logs) was taken.
get_symbol_info(symbol, info) ==
    IF info.kind # "list"
    THEN [pair |-> Default, logged |-> TRUE, raised |-> FALSE]
    ELSE LET r == ScanSymbols(info.symbols, symbol, 1)
         IN [pair |-> r.pair, logged |-> r.raised, raised |-> FALSE]

\* int(num / den) in place of round(num / den): truncation.
Truncate(num, den) ==
    LET n == IF den < 0 THEN -num ELSE num
        d == IF den < 0 THEN -den ELSE den
    IN IF n >= 0 THEN n \div d ELSE -((-n) \div d)

\* ------------------------------------------------------------ round_step
\* Python 3 round(num / den) for den # 0: half to even.
RoundHalfEven(num, den) ==
    LET n == IF den < 0 THEN -num ELSE num
        d == IF den < 0 THEN -den ELSE den
        q == IF n >= 0 THEN n \div d ELSE -((-n + d - 1) \div d)
        r == n - q * d
    IN IF 2 * r < d THEN q
       ELSE IF 2 * r > d THEN q + 1
       ELSE IF q % 2 = 0 THEN q ELSE q + 1

\* round_step(value, step) for value = vNum / vDen: round(value / step) * step.
round_step(vNum, vDen, step) == RoundHalfEven(vNum, vDen * step) * step
\* ------------------------------------------------------- new_order() results
\* client.new_order(): returns the order record, raises ClientError (the
\* exchange's code and message; exposes says whether the exception object has
\* the attributes  message  and  code  that line 114 reads), or raises
\* something else.
NoOrder == [orderId |-> 0]
OrderOutcomes ==
    { [kind |-> "ok", order |-> [orderId |-> 7], code |-> 0, message |-> "", exposes |-> TRUE],
      [kind |-> "ClientError", order |-> NoOrder, code |-> -2019,
       message |-> "Margin is insufficient", exposes |-> TRUE],
      [kind |-> "ClientError", order |-> NoOrder, code |-> -2019,
       message |-> "Margin is insufficient", exposes |-> FALSE],
      [kind |-> "ConnectionError", order |-> NoOrder, code |-> 0, message |-> "", exposes |-> TRUE] }

\* requests.post(): returns, or raises (timeout, connection error).
PostOutcomes == {"ok", "raises"}

\* ------------------------------------------------------------- responses
NoError == [text |-> "", message |-> "", code |-> 0]
ErrorBody(text, message, code) ==
    [keys |-> {"error"}, error |-> [text |-> text, message |-> message, code |-> code],
     order |-> NoOrder]
SuccessBody(order) == [keys |-> {"status", "order"}, error |-> NoError, order |-> order]
Reply(status, body) == [status |-> status, body |-> body]
NoResponse == Reply(0, [keys |-> {}, error |-> NoError, order |-> NoOrder])

NoException == [type |-> "none", message |-> "", code |-> 0, exposes |-> TRUE]
Exception(type) == [type |-> type, message |-> "", code |-> 0, exposes |-> TRUE]

\* ---------------------------------------------------------------- state
VARIABLES
    alert,        \* the body of the POST /webhook request being handled
    webhookUrl,   \* per run: whether DISCORD_WEBHOOK_URL is set
    pc,           \* per run: where webhook() stands
    data,         \* per run: what request.get_json() returned
    locals,       \* per run: symbol, side, entry, sl, tp1, tp2, step_size, tick_size, quantity
    infoCalls,    \* per run: the exchange_info() results received, in order
    orderCalls,   \* per run: the new_order() calls made, with their outcomes
    notes,        \* per run: the send_discord() calls made, with what became of the post
    exc,          \* per run: the exception being handled
    response,     \* per run: the response returned to the caller
    rsIn,         \* round_step check: the arguments
    rsOut         \* round_step check: the result

vars == << alert, webhookUrl, pc, data, locals, infoCalls, orderCalls, notes, exc, response,
           rsIn, rsOut >>

NoLocals ==
    [symbol |-> "", side |-> "", entry |-> 0, sl |-> 0, tp1 |-> 0, tp2 |-> 0,
     step_size |-> 0, tick_size |-> 0, quantity |-> 0]

HandlerInit ==
    /\ alert = NoAlert
    /\ webhookUrl = [r \in Runs |-> FALSE]
    /\ pc = [r \in Runs |-> "idle"]
    /\ data = [r \in Runs |-> "unset"]
    /\ locals = [r \in Runs |-> NoLocals]
    /\ infoCalls = [r \in Runs |-> << >>]
    /\ orderCalls = [r \in Runs |-> << >>]
    /\ notes = [r \in Runs |-> << >>]
    /\ exc = [r \in Runs |-> NoException]
    /\ response = [r \in Runs |-> NoResponse]

NoRound == [vNum |-> 0, vDen |-> 1, step |-> 1]

Init ==
    /\ HandlerInit
    /\ rsIn = NoRound
    /\ rsOut = 0

\* A POST /webhook arrives.
Receive(body) ==
    /\ alert = NoAlert
    /\ alert' = body
    /\ UNCHANGED << webhookUrl, pc, data, locals, infoCalls, orderCalls, notes, exc, response,
                    rsIn, rsOut >>

Ended(r) == pc[r] \in {"responded", "escaped"}

\* Lines 53-54: webhook() is entered for the alert, in a process whose
\* DISCORD_WEBHOOK_URL (line 17) is set or not.
Dispatch(r, url) ==
    /\ alert # NoAlert
    /\ pc[r] = "idle"
    /\ \A q \in Runs : q < r => Ended(q)
    /\ webhookUrl' = [webhookUrl EXCEPT ![r] = url]
    /\ pc' = [pc EXCEPT ![r] = "received"]
    /\ UNCHANGED << alert, data, locals, infoCalls, orderCalls, notes, exc, response,
                    rsIn, rsOut >>

\* The exchange answers the invocations of one alert alike.
SameAnswer(calls, answer) ==
    \A q \in Runs : calls[q] # << >> => calls[q][1] = answer

\* send_discord without the try/except around the post.
send_discord_unguarded(url, kind, message, embeds, post) ==
    [note |-> [kind |-> kind, message |-> message, embeds |-> embeds,
               post |-> IF url THEN post ELSE "not attempted"],
     raised |-> url /\ post = "raises"]

\* send_discord raising when no URL is configured instead of returning.
send_discord_needs_url(url, kind, message, embeds, post) ==
    [note |-> [kind |-> kind, message |-> message, embeds |-> embeds,
               post |-> IF url THEN post ELSE "not attempted"],
     raised |-> ~url]

\* ------------------------------------------------------------ send_discord
\* send_discord(message, embeds) with the post behaving as post: the call as
\* recorded, and whether an exception leaves send_discord (it never does:
\* no URL returns early, a failing post is caught and logged).
send_discord(url, kind, message, embeds, post) ==
    [note |-> [kind |-> kind, message |-> message, embeds |-> embeds,
               post |-> IF url THEN post ELSE "not attempted"],
     raised |-> FALSE]

\* ------------------------------------------------------------- the handler
\* Lines 56-58: request.get_json().  A body that is not JSON raises
\* BadRequest; no JSON body at all gives None or, on newer Flask, raises
\* UnsupportedMediaType; falsy JSON is answered 400.  Which of the two the
\* installed Flask does is the same for every run.
GetJsonOutcomes(body) ==
    CASE body.kind = "absent" -> {"None", "raises"}
      [] body.kind = "malformed" -> {"raises"}
      [] body.kind = "empty" -> {"falsy"}
      [] body.kind = "array" -> {"array"}
      [] OTHER -> {"object"}

ParseBody(r, got) ==
    /\ pc[r] = "received"
    /\ got \in GetJsonOutcomes(alert)
    /\ \A q \in Runs : data[q] # "unset" => data[q] = got
    /\ data' = [data EXCEPT ![r] = got]
    /\ IF got = "raises"
       THEN /\ exc' = [exc EXCEPT ![r] = Exception(IF alert.kind = "absent"
                                                    THEN "UnsupportedMediaType"
                                                    ELSE "BadRequest")]
            /\ pc' = [pc EXCEPT ![r] = "except"]
            /\ UNCHANGED response
       ELSE IF got \in {"None", "falsy"}
       THEN /\ response' = [response EXCEPT ![r] = Reply(400, ErrorBody("no JSON data", "", 0))]
            /\ pc' = [pc EXCEPT ![r] = "responded"]
            /\ UNCHANGED exc
       ELSE /\ pc' = [pc EXCEPT ![r] = "parsed"]
            /\ UNCHANGED << exc, response >>
    /\ UNCHANGED << alert, webhookUrl, locals, infoCalls, orderCalls, notes, rsIn, rsOut >>
\* Lines 63-68: the fields, in the order the code reads them; the first
\* statement that raises ends the extraction.
Extract(obj) ==
    LET entry == ToFloat(obj.entry)
        sl == ToFloat(obj.sl)
        tp1 == ToFloat(obj.tp1)
        tp2 == ToFloat(obj.tp2)
        Fail(type) == [ok |-> FALSE, exc |-> type, fields |-> NoLocals]
    IN IF obj.symbol.t = "num" THEN Fail("AttributeError")
       ELSE IF obj.side.t = "num" THEN Fail("AttributeError")
       ELSE IF ~entry.ok THEN Fail(entry.exc)
       ELSE IF ~sl.ok THEN Fail(sl.exc)
       ELSE IF ~tp1.ok THEN Fail(tp1.exc)
       ELSE IF ~tp2.ok THEN Fail(tp2.exc)
       ELSE [ok |-> TRUE, exc |-> "none",
             fields |-> [NoLocals EXCEPT
                 !.symbol = IF obj.symbol.t = "missing" THEN "BTCUSDT" ELSE Upper(obj.symbol.s),
                 !.side = IF obj.side.t = "missing" THEN "" ELSE Upper(obj.side.s),
                 !.entry = entry.v, !.sl = sl.v, !.tp1 = tp1.v, !.tp2 = tp2.v]]

\* A side check that only asks for some side.
ValidSideAny(side) == side # ""

\* Line 70.
ValidSide(side) == side \in {"BUY", "SELL"}

\* Lines 63-71.
ExtractFields(r) ==
    /\ pc[r] = "parsed"
    /\ LET x == IF data[r] = "array"
                THEN [ok |-> FALSE, exc |-> "AttributeError", fields |-> NoLocals]
                ELSE Extract(alert.obj)
       IN IF ~x.ok
          THEN /\ exc' = [exc EXCEPT ![r] = Exception(x.exc)]
               /\ pc' = [pc EXCEPT ![r] = "except"]
               /\ UNCHANGED << locals, response >>
          ELSE /\ locals' = [locals EXCEPT ![r] = x.fields]
               /\ IF ValidSide(x.fields.side)
                  THEN /\ pc' = [pc EXCEPT ![r] = "validated"]
                       /\ UNCHANGED response
                  ELSE /\ response' = [response EXCEPT ![r] =
                                          Reply(400, ErrorBody("side must be BUY or SELL", "", 0))]
                       /\ pc' = [pc EXCEPT ![r] = "responded"]
               /\ UNCHANGED exc
    /\ UNCHANGED << alert, webhookUrl, data, infoCalls, orderCalls, notes, rsIn, rsOut >>

\* Line 74: get_symbol_info(symbol), one exchange_info() call.
ResolvePrecision(r, info) ==
    /\ pc[r] = "validated"
    /\ SameAnswer(infoCalls, info)
    /\ infoCalls' = [infoCalls EXCEPT ![r] = Append(@, info)]
    /\ LET res == get_symbol_info(locals[r].symbol, info)
       IN IF res.raised
          THEN /\ exc' = [exc EXCEPT ![r] = Exception("Exception")]
               /\ pc' = [pc EXCEPT ![r] = "except"]
               /\ UNCHANGED locals
          ELSE /\ locals' = [locals EXCEPT ![r].step_size = res.pair[1],
                                            ![r].tick_size = res.pair[2]]
               /\ pc' = [pc EXCEPT ![r] = "resolved"]
               /\ UNCHANGED exc
    /\ UNCHANGED << alert, webhookUrl, data, orderCalls, notes, response, rsIn, rsOut >>

\* quantity < 0 in place of quantity <= 0.
RejectedBelowZero(quantity) == quantity < 0

\* Line 82.
Rejected(quantity) == quantity <= 0

\* Lines 77-83: quantity = round_step(notional / price, step_size).
SizeOrder(r) ==
    /\ pc[r] = "resolved"
    /\ LET price == locals[r].entry
           step == locals[r].step_size
       IN IF price = 0 \/ step = 0
          THEN /\ exc' = [exc EXCEPT ![r] = Exception("ZeroDivisionError")]
               /\ pc' = [pc EXCEPT ![r] = "except"]
               /\ UNCHANGED << locals, response >>
          ELSE LET quantity == round_step(notional * Milli, price, step)
               IN /\ locals' = [locals EXCEPT ![r].quantity = quantity]
                  /\ IF Rejected(quantity)
                     THEN /\ response' = [response EXCEPT ![r] =
                                             Reply(400, ErrorBody("computed quantity <= 0", "", 0))]
                          /\ pc' = [pc EXCEPT ![r] = "responded"]
                     ELSE /\ pc' = [pc EXCEPT ![r] = "sized"]
                          /\ UNCHANGED response
                  /\ UNCHANGED exc
    /\ UNCHANGED << alert, webhookUrl, data, infoCalls, orderCalls, notes, rsIn, rsOut >>

\* Lines 86-92: one client.new_order() call.
SubmitOrder(r, out) ==
    /\ pc[r] = "sized"
    /\ SameAnswer([q \in Runs |-> IF orderCalls[q] = << >> THEN << >>
                                  ELSE << orderCalls[q][1].outcome >>], out)
    /\ orderCalls' = [orderCalls EXCEPT ![r] =
           Append(@, [symbol |-> locals[r].symbol, side |-> locals[r].side, type |-> "MARKET",
                      quantity |-> locals[r].quantity, outcome |-> out])]
    /\ IF out.kind = "ok"
       THEN /\ pc' = [pc EXCEPT ![r] = "submitted"]
            /\ UNCHANGED exc
       ELSE /\ exc' = [exc EXCEPT ![r] = [type |-> out.kind, message |-> out.message,
                                          code |-> out.code, exposes |-> out.exposes]]
            /\ pc' = [pc EXCEPT ![r] = "except"]
    /\ UNCHANGED << alert, webhookUrl, data, locals, infoCalls, notes, response, rsIn, rsOut >>

NoEmbed == [title |-> "", side |-> "", quantity |-> 0, entry |-> 0, sl |-> 0, tp1 |-> 0,
            tp2 |-> 0, color |-> ""]

\* Lines 99-108.
Embed(l) ==
    [title |-> l.symbol, side |-> IF l.side = "BUY" THEN "long" ELSE "short",
     quantity |-> l.quantity, entry |-> l.entry, sl |-> l.sl, tp1 |-> l.tp1, tp2 |-> l.tp2,
     color |-> IF l.side = "BUY" THEN "00FF00" ELSE "FF0000"]

\* Lines 99-109: the success notification.
NotifySuccess(r, post) ==
    /\ pc[r] = "submitted"
    /\ LET sent == send_discord(webhookUrl[r], "success", NoError, Embed(locals[r]), post)
       IN /\ notes' = [notes EXCEPT ![r] = Append(@, sent.note)]
          /\ IF sent.raised
             THEN /\ exc' = [exc EXCEPT ![r] = Exception("RequestException")]
                  /\ pc' = [pc EXCEPT ![r] = "except"]
             ELSE /\ pc' = [pc EXCEPT ![r] = "notified"]
                  /\ UNCHANGED exc
    /\ UNCHANGED << alert, webhookUrl, data, locals, infoCalls, orderCalls, response, rsIn, rsOut >>

\* Line 111.
RespondSuccess(r) ==
    /\ pc[r] = "notified"
    /\ response' = [response EXCEPT ![r] =
           Reply(200, SuccessBody(orderCalls[r][Len(orderCalls[r])].outcome.order))]
    /\ pc' = [pc EXCEPT ![r] = "responded"]
    /\ UNCHANGED << alert, webhookUrl, data, locals, infoCalls, orderCalls, notes, exc, rsIn, rsOut >>

\* Lines 114 and 119: error_msg.
ErrorMsg(e) ==
    IF e.type = "ClientError"
    THEN [text |-> "Binance API error", message |-> e.message, code |-> e.code]
    ELSE [text |-> "unknown error", message |-> e.type, code |-> 0]

\* Lines 113-116: except ClientError.  Reading e.message or e.code of an
\* exception object without these attributes raises AttributeError inside
\* the except clause, which no clause of this try statement catches.
OnClientError(r, post) ==
    /\ pc[r] = "except"
    /\ exc[r].type = "ClientError"
    /\ IF ~exc[r].exposes
       THEN /\ exc' = [exc EXCEPT ![r] = Exception("AttributeError")]
            /\ pc' = [pc EXCEPT ![r] = "escaped"]
            /\ UNCHANGED notes
       ELSE LET sent == send_discord(webhookUrl[r], "failure", ErrorMsg(exc[r]), NoEmbed, post)
            IN /\ notes' = [notes EXCEPT ![r] = Append(@, sent.note)]
               /\ IF sent.raised
                  THEN /\ exc' = [exc EXCEPT ![r] = Exception("RequestException")]
                       /\ pc' = [pc EXCEPT ![r] = "escaped"]
                  ELSE /\ pc' = [pc EXCEPT ![r] = "failnotified"]
                       /\ UNCHANGED exc
    /\ UNCHANGED << alert, webhookUrl, data, locals, infoCalls, orderCalls, response, rsIn, rsOut >>

\* except Exception that submits the order again after a failed submission.
OnExceptionRetry(r, post) ==
    /\ pc[r] = "except"
    /\ exc[r].type # "ClientError"
    /\ IF orderCalls[r] # << >>
       THEN /\ pc' = [pc EXCEPT ![r] = "sized"]
            /\ exc' = [exc EXCEPT ![r] = NoException]
            /\ UNCHANGED notes
       ELSE /\ notes' = [notes EXCEPT ![r] = Append(@,
                   send_discord(webhookUrl[r], "failure", ErrorMsg(exc[r]), NoEmbed, post).note)]
            /\ pc' = [pc EXCEPT ![r] = "failnotified"]
            /\ UNCHANGED exc
    /\ UNCHANGED << alert, webhookUrl, data, locals, infoCalls, orderCalls, response, rsIn, rsOut >>

\* Lines 118-121: except Exception.
OnException(r, post) ==
    /\ pc[r] = "except"
    /\ exc[r].type # "ClientError"
    /\ LET sent == send_discord(webhookUrl[r], "failure", ErrorMsg(exc[r]), NoEmbed, post)
       IN /\ notes' = [notes EXCEPT ![r] = Append(@, sent.note)]
          /\ IF sent.raised
             THEN /\ exc' = [exc EXCEPT ![r] = Exception("RequestException")]
                  /\ pc' = [pc EXCEPT ![r] = "escaped"]
             ELSE /\ pc' = [pc EXCEPT ![r] = "failnotified"]
                  /\ UNCHANGED exc
    /\ UNCHANGED << alert, webhookUrl, data, locals, infoCalls, orderCalls, response, rsIn, rsOut >>

\* Lines 117 and 122.
RespondError(r) ==
    /\ pc[r] = "failnotified"
    /\ response' = [response EXCEPT ![r] =
           Reply(IF exc[r].type = "ClientError" THEN 400 ELSE 500,
                 [keys |-> {"error"}, error |-> ErrorMsg(exc[r]), order |-> NoOrder])]
    /\ pc' = [pc EXCEPT ![r] = "responded"]
    /\ UNCHANGED << alert, webhookUrl, data, locals, infoCalls, orderCalls, notes, exc, rsIn, rsOut >>

Next ==
    \/ /\ alert = NoAlert
       /\ \E body \in Bodies : Receive(body)
    \/ \E r \in Runs :
          \/ \E url \in BOOLEAN : Dispatch(r, url)
          \/ \E got \in GetJsonOutcomes(alert) : ParseBody(r, got)
          \/ ExtractFields(r)
          \/ \E info \in ExchangeInfos : ResolvePrecision(r, info)
          \/ SizeOrder(r)
          \/ \E out \in OrderOutcomes : SubmitOrder(r, out)
          \/ \E post \in PostOutcomes : NotifySuccess(r, post)
          \/ RespondSuccess(r)
          \/ \E post \in PostOutcomes : OnClientError(r, post)
          \/ \E post \in PostOutcomes : OnException(r, post)
          \/ RespondError(r)

Spec == Init /\ [][Next]_vars

\* ------------------------------------------------ round_step on its own
\* The arguments: value = vNum / vDen > 0 and step > 0.
\* The sizer's calls (lines 79-80) of the two documented examples.
SizerCall(entry) == [vNum |-> notional * Milli, vDen |-> entry, step |-> DefaultStepSize]

RoundInit ==
    /\ HandlerInit
    /\ rsIn \in [vNum : 1 .. MaxNum, vDen : 1 .. MaxDen, step : 1 .. MaxStep]
                 \cup {SizerCall(3), SizerCall(100)}
    /\ rsOut = -1

ApplyRoundStep ==
    /\ rsOut = -1
    /\ rsOut' = round_step(rsIn.vNum, rsIn.vDen, rsIn.step)
    /\ UNCHANGED << rsIn, alert, webhookUrl, pc, data, locals, infoCalls, orderCalls, notes,
                    exc, response >>

RoundNext == ApplyRoundStep

RoundSpec == RoundInit /\ [][RoundNext]_vars
\* ================================================================ claims
IsObject == alert.kind = "object"
Convertible(x) == x.t = "num" \/ (x.t = "str" /\ x.s \in NumericStrings)
PricesConvert ==
    /\ Convertible(alert.obj.entry) /\ Convertible(alert.obj.sl)
    /\ Convertible(alert.obj.tp1) /\ Convertible(alert.obj.tp2)
\* The alert's side is a string, or absent, that is not BUY or SELL once uppercased.
BadSide ==
    /\ IsObject
    /\ alert.obj.side.t # "num"
    /\ (alert.obj.side.t = "str" => Upper(alert.obj.side.s) \notin {"BUY", "SELL"})
NoOutboundCalls(r) == infoCalls[r] = << >> /\ orderCalls[r] = << >> /\ notes[r] = << >>
HasError(r) == "error" \in response[r].body.keys
NotesOfKind(r, kind) == {i \in 1 .. Len(notes[r]) : notes[r][i].kind = kind}

\* C1 as stated: a JSON object whose uppercased side is not BUY or SELL is
\* answered 400 with an error field, with no order and no notification,
\* whatever its prices (missing or non-numeric included).
C1_AsStated ==
    \A r \in Runs : BadSide /\ alert.obj.symbol.t # "num" =>
        /\ orderCalls[r] = << >>
        /\ notes[r] = << >>
        /\ pc[r] # "escaped"
        /\ (pc[r] = "responded" => response[r].status = 400 /\ HasError(r))

\* C1 amended: a JSON object whose side is not BUY or SELL once uppercased,
\* whose symbol is a string or absent and whose entry, sl, tp1 and tp2 all
\* convert with float(), is answered 400 with an error field, with no
\* exchange call and no notification.
C1_InvalidSideRejected ==
    \A r \in Runs : BadSide /\ alert.obj.symbol.t # "num" /\ PricesConvert =>
        /\ NoOutboundCalls(r)
        /\ pc[r] \notin {"escaped", "except", "validated"}
        /\ (pc[r] = "responded" => response[r].status = 400 /\ HasError(r))

C1_Witness ==
    \E r \in Runs :
        /\ BadSide /\ alert.obj.side = Str("long") /\ PricesConvert
        /\ pc[r] = "responded" /\ response[r].status = 400

\* C2 as stated: a request whose JSON body is absent, malformed or empty is
\* answered 400 'no JSON data' and makes no outbound call at all.
C2_AsStated ==
    \A r \in Runs : alert.kind \in {"absent", "malformed", "empty"} =>
        /\ NoOutboundCalls(r)
        /\ pc[r] \notin {"escaped", "except"}
        /\ (pc[r] = "responded" =>
               response[r] = Reply(400, ErrorBody("no JSON data", "", 0)))

\* C3 as stated: when new_order raises a client error carrying a code and a
\* message, the request ends 400 with both in the error string, after
\* exactly one failure notification, no success notification and one order
\* call.
ClientErrorRaised(r) ==
    /\ orderCalls[r] # << >>
    /\ orderCalls[r][1].outcome.kind = "ClientError"
    /\ orderCalls[r][1].outcome.code = -2019
    /\ orderCalls[r][1].outcome.message = "Margin is insufficient"
EndsAsClientError(r) ==
    /\ Len(orderCalls[r]) = 1
    /\ NotesOfKind(r, "success") = {}
    /\ Len(notes[r]) <= 1
    /\ pc[r] \in {"except", "failnotified", "responded"}
    /\ (pc[r] \in {"failnotified", "responded"} =>
           /\ Len(notes[r]) = 1
           /\ notes[r][1].kind = "failure"
           /\ notes[r][1].message.code = orderCalls[r][1].outcome.code)
    /\ (pc[r] = "responded" =>
           /\ response[r].status = 400
           /\ HasError(r)
           /\ response[r].body.error.message = orderCalls[r][1].outcome.message
           /\ response[r].body.error.code = orderCalls[r][1].outcome.code)
C3_AsStated ==
    \A r \in Runs : ClientErrorRaised(r) => EndsAsClientError(r)

\* What holds of lines 113-117: the same, for an exception object on which
\* the attributes  message  and  code  can be read.
ClientErrorPathWhenReadable ==
    \A r \in Runs :
        ClientErrorRaised(r) /\ orderCalls[r][1].outcome.exposes => EndsAsClientError(r)

\* C4: every order submitted has a strictly positive quantity, side BUY or
\* SELL and type MARKET; the step that computes a quantity <= 0 answers 400
\* with no order and no notification, and that is how the request ends.
OrdersWellFormed ==
    \A r \in Runs : \A i \in 1 .. Len(orderCalls[r]) :
        /\ orderCalls[r][i].quantity > 0
        /\ orderCalls[r][i].side \in {"BUY", "SELL"}
        /\ orderCalls[r][i].type = "MARKET"
SizedToNothing(r) ==
    /\ pc[r] = "resolved" /\ pc'[r] \notin {"resolved", "except"}
    /\ locals'[r].quantity <= 0
SizingRejection(r) ==
    /\ pc[r] = "responded"
    /\ response[r] = Reply(400, ErrorBody("computed quantity <= 0", "", 0))
C4_QuantityPositive ==
    /\ [](OrdersWellFormed /\ \A r \in Runs : SizingRejection(r) =>
                                 orderCalls[r] = << >> /\ notes[r] = << >>)
    /\ [][\A r \in Runs : SizedToNothing(r) => SizingRejection(r)']_vars

C4_Witness ==
    \E r \in Runs :
        /\ SizingRejection(r)
        /\ locals[r].quantity = 0 /\ locals[r].entry = 30000
        /\ locals[r].step_size = DefaultStepSize
\* C5: whenever the metadata lookup fails (the fetch raises, the payload is
\* malformed, the symbol is not listed) the handler goes on with stepSize
\* 0.001 and tickSize 0.01: no exception reaches it, it sizes the order with
\* the default step and, the quantity being positive, submits it.
Listed(info, symbol) ==
    /\ info.kind = "list"
    /\ \E i \in 1 .. Len(info.symbols) :
          /\ info.symbols[i].symbol = symbol /\ info.symbols[i].shape = "ok"
          /\ \A j \in 1 .. (i - 1) :
                info.symbols[j].shape # "nosymbol" /\ info.symbols[j].symbol # symbol
LookupFailed(r) == infoCalls[r] # << >> /\ ~Listed(infoCalls[r][1], locals[r].symbol)
C5_LookupFallsBack ==
    \A r \in Runs : LookupFailed(r) =>
        /\ Len(infoCalls[r]) = 1
        /\ locals[r].step_size = DefaultStepSize
        /\ locals[r].tick_size = DefaultTickSize
        /\ pc[r] # "validated"
        /\ exc[r].type \in {"none", "ZeroDivisionError", "ClientError", "ConnectionError",
                             "AttributeError"}
        /\ (exc[r].type = "ZeroDivisionError" => locals[r].entry = 0)
        /\ (exc[r].type = "AttributeError" => orderCalls[r] # << >>)
        /\ (Ended(r) /\ locals[r].entry > 0 /\ locals[r].entry < 2 * notional * Milli =>
               /\ Len(orderCalls[r]) = 1
               /\ orderCalls[r][1].quantity > 0
               /\ 2 * (orderCalls[r][1].quantity * locals[r].entry - notional * Milli)
                     <= DefaultStepSize * locals[r].entry
               /\ 2 * (notional * Milli - orderCalls[r][1].quantity * locals[r].entry)
                     <= DefaultStepSize * locals[r].entry)

C5_Witness ==
    \E r \in Runs :
        /\ LookupFailed(r) /\ infoCalls[r][1].kind = "raises"
        /\ pc[r] = "responded" /\ response[r].status = 200
        /\ orderCalls[r][1].quantity = 3333

\* C6: two runs of the same alert against the same exchange behaviour end
\* alike (same status and body, or the same exception leaving the handler)
\* and make the same exchange calls, however their notification channels
\* behave.
ExchangeSeen(r) ==
    << infoCalls[r], orderCalls[r] >>
C6_NotifierDoesNotInterfere ==
    \A r1, r2 \in Runs : Ended(r1) /\ Ended(r2) =>
        /\ pc[r1] = pc[r2]
        /\ response[r1] = response[r2]
        /\ (pc[r1] = "escaped" => exc[r1] = exc[r2])
        /\ ExchangeSeen(r1) = ExchangeSeen(r2)

C6_Witness ==
    \E r1, r2 \in Runs :
        /\ Ended(r1) /\ Ended(r2)
        /\ response[r1].status = 200
        /\ notes[r1][1].post = "raises" /\ notes[r2][1].post = "ok"

\* C7 as stated: every request invokes the notifier exactly once.
C7_AsStated ==
    \A r \in Runs : pc[r] = "responded" => Len(notes[r]) = 1

\* C7 amended: a request invokes the notifier at most once, never for both
\* a success and a failure; exactly once (success) when it ends 200 and
\* exactly once (failure) when it ends 500 or 400 on an exchange client
\* error; not at all when it ends 400 for no JSON data, an invalid side or
\* a quantity <= 0.
ValidationTexts == {"no JSON data", "side must be BUY or SELL", "computed quantity <= 0"}
C7_AtMostOneNotification ==
    \A r \in Runs :
        /\ Len(notes[r]) <= 1
        /\ (pc[r] = "responded" /\ response[r].status = 200 =>
               Len(notes[r]) = 1 /\ notes[r][1].kind = "success")
        /\ (pc[r] = "responded" /\ response[r].status = 500 =>
               Len(notes[r]) = 1 /\ notes[r][1].kind = "failure")
        /\ (pc[r] = "responded" /\ response[r].status = 400 =>
               IF response[r].body.error.text \in ValidationTexts
               THEN notes[r] = << >>
               ELSE Len(notes[r]) = 1 /\ notes[r][1].kind = "failure")

C7_Witness ==
    /\ pc[1] = "responded" /\ response[1].status = 200 /\ Len(notes[1]) = 1
    /\ ~webhookUrl[1]
    /\ pc[2] = "responded"

\* C8: for value > 0 and step > 0, round_step(value, step) is an integer
\* multiple of step within step / 2 of value; the sizer's results for
\* entry 100 and entry 3 at step 0.001 are 0.1 and 3.333.
C8_RoundStep ==
    rsOut # -1 =>
        /\ rsOut % rsIn.step = 0
        /\ 2 * (rsOut * rsIn.vDen - rsIn.vNum) <= rsIn.step * rsIn.vDen
        /\ 2 * (rsIn.vNum - rsOut * rsIn.vDen) <= rsIn.step * rsIn.vDen
        /\ (rsIn = SizerCall(100) => rsOut = 100)
        /\ (rsIn = SizerCall(3) => rsOut = 3333)

C8_Witness ==
    /\ rsIn = [vNum |-> 5, vDen |-> 2, step |-> 1]
    /\ rsOut = 2

\* C9 as stated: no exception leaves webhook(); a failure other than an
\* exchange client error ends the request 500 with an error field after a
\* failure notification, and every request ends with one response of
\* status 200, 400 or 500.
C9_AsStated ==
    \A r \in Runs :
        /\ pc[r] # "escaped"
        /\ (pc[r] = "responded" => response[r].status \in {200, 400, 500})
        /\ (pc[r] = "responded" /\ exc[r].type \notin {"none", "ClientError"} =>
               /\ response[r].status = 500 /\ HasError(r)
               /\ Len(notes[r]) = 1 /\ notes[r][1].kind = "failure"
               /\ notes[r][1].message.message = exc[r].type)

\* C10: per request at most one exchange_info() call and at most one
\* new_order() call; the order is submitted only after validation, the
\* precision lookup and sizing; the success notification only after the
\* order call returned; 200 'success' only after that notification; after
\* a failed submission no second order call.
C10_SequentialNoRetry ==
    \A r \in Runs :
        /\ Len(infoCalls[r]) <= 1
        /\ Len(orderCalls[r]) <= 1
        /\ (orderCalls[r] # << >> =>
               /\ data[r] = "object"
               /\ locals[r].side \in {"BUY", "SELL"}
               /\ Len(infoCalls[r]) = 1
               /\ locals[r].step_size > 0
               /\ locals[r].quantity > 0
               /\ orderCalls[r][1].quantity = locals[r].quantity
               /\ orderCalls[r][1].symbol = locals[r].symbol)
        /\ (NotesOfKind(r, "success") # {} =>
               /\ orderCalls[r] # << >> /\ orderCalls[r][1].outcome.kind = "ok"
               /\ pc[r] \in {"notified", "responded"})
        /\ (response[r].status = 200 =>
               /\ notes[r] # << >> /\ notes[r][1].kind = "success"
               /\ "status" \in response[r].body.keys
               /\ response[r].body.order = orderCalls[r][1].outcome.order)
        /\ (orderCalls[r] # << >> /\ orderCalls[r][1].outcome.kind # "ok" =>
               /\ pc[r] \in {"except", "failnotified", "responded", "escaped"}
               /\ response[r].status # 200)

C10_Witness ==
    \E r \in Runs :
        /\ pc[r] = "responded"
        /\ orderCalls[r] # << >> /\ orderCalls[r][1].outcome.kind = "ConnectionError"
        /\ response[r].status = 500
====
